---- MODULE Spec2Model ----
(***************************************************************************)
(* State-machine model of the dual-mode capture-and-analysis pipeline:     *)
(* the FaceScan component (src/unnamed/part_000), the VoiceAnalysis        *)
(* component (src/VoiceAnalysis.tsx) and the tab host (src/App.tsx).       *)
(*                                                                         *)
(* React specifics that the model keeps:                                   *)
(*  - a handler runs with the state values of the render it was created    *)
(*    in (its closure); continuations after an await keep that closure;    *)
(*  - refs (xxxRef.current) are shared, mutable and read at call time;     *)
(*  - a ref to a DOM element is non-null only while the element is         *)
(*    rendered;                                                            *)
(*  - a state setter called for an unmounted component changes nothing.    *)
(* JavaScript is single-threaded: every action below is one task (one      *)
(* event handler, or one continuation up to its next await).               *)
(***************************************************************************)
EXTENDS Integers, FiniteSets, Sequences, TLC

\* ------------------------------------------------------------------ bounds
MaxMicStarts == 2   \* startRecording invocations followed over a behaviour
MaxCamStarts == 1   \* startCamera invocations followed (the denied ones apart)
MaxTime == 3        \* cap on the recordingTime counter (seconds)
MaxFaces == 1       \* the detector returns 0..MaxFaces regions
MaxRegions == 3     \* regions of the detections the classifier is run on
MaxDuration == 6    \* seconds of the recordings the classifier is run on

\* ------------------------------------------------------- program constants
MinRecordingTime == 3   \* if (recordingTime < 3)

MicIds == 1..MaxMicStarts
CamIds == 1..MaxCamStarts
\* The two Math.random() draws of one analysis, <<r, u>>: r is randomFactor in
\* hundredths (the two thresholds, their neighbours and the ends of [0, 1)),
\* u is the confidence draw in thousandths (the ends of [0, 1) and a value
\* that rounds). Every r and every pair of a status with a u occurs.
Draws ==
    { <<0, 0>>, <<35, 250>>, <<35, 999>>,
      <<36, 0>>, <<70, 250>>, <<36, 999>>,
      <<71, 0>>, <<99, 250>>, <<71, 999>> }
NotDrawn == <<0, 0>>

NoError == "null"
ErrModel == "Failed to load AI model. Please refresh the page."
ErrCamera == "Could not access camera. Please check permissions."
ErrNoFaceCapture == "No face detected. Please ensure your face is clearly visible."
ErrNoFaceUpload == "No face detected in the image. Please upload a clear face photo."
ErrAnalysis == "Analysis failed. Please try again."
ErrMic == "Could not access microphone. Please check permissions."
ErrTooShort == "Recording too short. Please speak for at least 3 seconds."

\* ------------------------------------------------------------- classifier
\* Math.round of the non-negative rational num / den (half rounds up).
MathRound(num, den) == (2 * num + den) \div (2 * den)

\* A variant of HealthStatus whose healthy band starts at 0.70 itself.
HealthStatusFrom70(r) ==
    IF r >= 70 THEN "healthy"
    ELSE IF r > 35 THEN "needs-consultation"
    ELSE "high-risk"

\* analyzeHealth: if (randomFactor > 0.7) .. else if (randomFactor > 0.35) ..
\* (r is randomFactor in hundredths)
HealthStatus(r) ==
    IF r > 70 THEN "healthy"
    ELSE IF r > 35 THEN "needs-consultation"
    ELSE "high-risk"

\* analyzeHealth: finalConfidence = base + Math.random() * span, then
\* Math.round(finalConfidence) (u is the draw in thousandths).
finalConfidence(status, u) ==
    IF status = "healthy" THEN MathRound(75 * 1000 + 20 * u, 1000)
    ELSE IF status = "needs-consultation" THEN MathRound(60 * 1000 + 15 * u, 1000)
    ELSE MathRound(55 * 1000 + 10 * u, 1000)

\* analyzeVoice: if (randomFactor > 0.7) .. else if (randomFactor > 0.35) ..
VoiceHealthStatus(r) ==
    IF r > 70 THEN "healthy"
    ELSE IF r > 35 THEN "needs-consultation"
    ELSE "high-risk"

\* A variant of confidence whose healthy span is 25 instead of 20.
confidenceSpan25(status, u) ==
    IF status = "healthy" THEN MathRound(75 * 1000 + 25 * u, 1000)
    ELSE IF status = "needs-consultation" THEN MathRound(60 * 1000 + 15 * u, 1000)
    ELSE MathRound(55 * 1000 + 10 * u, 1000)

\* analyzeVoice: confidence = base + Math.random() * span, then rounded.
confidence(status, u) ==
    IF status = "healthy" THEN MathRound(75 * 1000 + 20 * u, 1000)
    ELSE IF status = "needs-consultation" THEN MathRound(60 * 1000 + 15 * u, 1000)
    ELSE MathRound(55 * 1000 + 10 * u, 1000)

\* analyzeHealth: the details assigned in the branch of randomFactor.
faceDetails(r) ==
    IF r > 70
    THEN << "Normal facial symmetry detected",
            "Skin tone analysis: Within normal range",
            "Eye analysis: No visible abnormalities",
            "Facial temperature estimation: Normal" >>
    ELSE IF r > 35
    THEN << "Minor facial asymmetry detected",
            "Skin tone variation observed",
            "Eye fatigue indicators present",
            "Possible signs of stress or fatigue" >>
    ELSE << "Significant facial irregularities detected",
            "Abnormal skin tone patterns observed",
            "Multiple risk indicators present",
            "Immediate medical attention may be needed" >>

\* A variant of faceRecommendations whose middle branch starts at 0.30.
faceRecommendationsFrom30(r) ==
    IF r > 70
    THEN << "Continue maintaining good health habits",
            "Regular health checkups recommended",
            "Stay hydrated and get adequate sleep" >>
    ELSE IF r > 30
    THEN << "Schedule a consultation with a healthcare provider",
            "Monitor for any changes in symptoms",
            "Ensure adequate rest and stress management",
            "Consider a comprehensive health screening" >>
    ELSE << "Consult a healthcare professional immediately",
            "Schedule comprehensive medical examination",
            "Document any recent symptoms or changes",
            "Do not delay seeking medical advice" >>

\* analyzeHealth: the recommendations assigned in the branch of randomFactor.
faceRecommendations(r) ==
    IF r > 70
    THEN << "Continue maintaining good health habits",
            "Regular health checkups recommended",
            "Stay hydrated and get adequate sleep" >>
    ELSE IF r > 35
    THEN << "Schedule a consultation with a healthcare provider",
            "Monitor for any changes in symptoms",
            "Ensure adequate rest and stress management",
            "Consider a comprehensive health screening" >>
    ELSE << "Consult a healthcare professional immediately",
            "Schedule comprehensive medical examination",
            "Document any recent symptoms or changes",
            "Do not delay seeking medical advice" >>

\* analyzeVoice: the details assigned in the branch of randomFactor.
voiceDetails(r) ==
    IF r > 70
    THEN << "Voice pitch within normal range",
            "Clear pronunciation detected",
            "No irregular breathing patterns",
            "Normal speech tempo",
            "No signs of voice strain or hoarseness" >>
    ELSE IF r > 35
    THEN << "Minor voice irregularities detected",
            "Slight hoarseness or strain observed",
            "Irregular breathing pattern noticed",
            "Voice pitch variation detected",
            "Possible signs of fatigue or stress" >>
    ELSE << "Significant voice abnormalities detected",
            "Severe hoarseness or strain present",
            "Irregular breathing patterns observed",
            "Multiple risk indicators identified",
            "Possible respiratory concerns" >>

\* analyzeVoice: the recommendations assigned in the branch of randomFactor.
voiceRecommendations(r) ==
    IF r > 70
    THEN << "Voice characteristics appear normal",
            "Continue maintaining good vocal health",
            "Stay hydrated and avoid excessive strain",
            "Regular health checkups recommended" >>
    ELSE IF r > 35
    THEN << "Schedule a consultation with a healthcare provider",
            "Consider ENT specialist evaluation",
            "Monitor for persistent voice changes",
            "Rest your voice and stay hydrated",
            "Avoid shouting or excessive talking" >>
    ELSE << "Consult a healthcare professional immediately",
            "Schedule ENT and respiratory evaluation",
            "Document any additional symptoms",
            "Avoid straining your voice",
            "Seek medical attention without delay" >>

\* ------------------------------------------------------------------ state
VARIABLES
    activeTab,  \* App: the tab whose component is mounted ("face" | "voice")
    face,       \* FaceScan: useState values, streamRef, position of the upload flow
    cams,       \* the startCamera invocations and the camera streams they obtained
    voice,      \* VoiceAnalysis: useState values and refs
    recs,       \* the startRecording invocations: stream, recorder, timer, context
    lastDraw    \* the randomFactor draw behind the result on display, per mode,
                \* and the flow that published the face result

vars == <<activeTab, face, cams, voice, recs, lastDraw>>

NoDraw == 0 - 1
NoDraws == [face |-> NoDraw, voice |-> NoDraw, flow |-> "none"]

\* FaceScan: initial useState / useRef values of a fresh mount; the effect
\* starts loadModel, so isModelLoading is true and model is null.
\* picker: the file dialog of the hidden <input type="file"> is open.
\* faceCount, probability: the predictions the detector resolved with (their
\* number, and the probability of the first one in hundredths, 0 if it has
\* none).
FaceInit ==
    [ isModelLoading |-> TRUE, model |-> FALSE, isAnalyzing |-> FALSE,
      isCameraActive |-> FALSE, analysisResult |-> {}, error |-> NoError,
      streamRef |-> 0, pc |-> "idle", faceCount |-> 0, probability |-> 0,
      picker |-> FALSE ]

\* VoiceAnalysis: initial useState / useRef values of a fresh mount.
\* timeouts: the invocations whose analyzeVoice waits in its setTimeout, in the
\* order the timeouts were set (equal delays expire in that order).
VoiceInit ==
    [ isRecording |-> FALSE, isAnalyzing |-> FALSE, analysisResult |-> {},
      error |-> NoError, recordingTime |-> 0, audioLevel |-> 0,
      mediaRecorderRef |-> 0, audioContextRef |-> 0, analyserRef |-> FALSE,
      animationFrameRef |-> FALSE, timerRef |-> 0, timeouts |-> <<>> ]

\* A startCamera invocation that has not happened yet.
CamIdle == [ phase |-> "idle", owner |-> FALSE, track |-> FALSE ]

\* A startRecording invocation that has not happened yet.
\*   phase   : idle, pending (awaiting getUserMedia), denied, failed (setup threw),
\*             recording, stopping (stop() called, stop event queued),
\*             analyzing (analyzeVoice in its delay), done
\*   owner   : the invocation belongs to the component instance now mounted
\*   closure : the state values of the render startRecording was created in
\*   track   : the stream's track is live;  timer : its setInterval is scheduled
\*   ctx     : its AudioContext is open
\*   elapsed : the recordingTime on display when its recorder was stopped
\*   stale   : resetAnalysis ran while its analyzeVoice was in its delay
RecIdle ==
    [ phase |-> "idle", owner |-> FALSE,
      closure |-> [recordingTime |-> 0, isRecording |-> FALSE],
      track |-> FALSE, timer |-> FALSE, ctx |-> FALSE, elapsed |-> 0,
      stale |-> FALSE ]

Init ==
    /\ activeTab = "face"
    /\ face = FaceInit
    /\ cams = [i \in CamIds |-> CamIdle]
    /\ voice = VoiceInit
    /\ recs = [i \in MicIds |-> RecIdle]
    /\ lastDraw = NoDraws

\* The first invocation slot not used yet (0 when the bound is reached).
FirstIdle(slots, ids) ==
    IF \E i \in ids : slots[i].phase = "idle"
    THEN CHOOSE i \in ids : slots[i].phase = "idle" /\ \A j \in ids : j < i => slots[j].phase # "idle"
    ELSE 0

\* Bookkeeping after every step: the closure and the count of an invocation
\* are dropped once no continuation of it reads them any more (it has ended, or
\* its component is unmounted), and so is the owner of an ended invocation
\* that left no timer behind.
TidyRecs(rs) ==
    [i \in MicIds |->
        IF rs[i].phase \in {"denied", "failed", "done"}
        THEN [rs[i] EXCEPT !.closure = RecIdle.closure, !.elapsed = 0,
                           !.stale = FALSE,
                           !.owner = (rs[i].owner /\ rs[i].timer)]
        ELSE IF ~rs[i].owner
        THEN [rs[i] EXCEPT !.closure = RecIdle.closure, !.elapsed = 0,
                           !.stale = FALSE]
        ELSE rs[i]]

\* ====================================================== VoiceAnalysis.tsx

\* startRecording, up to its await: setError(null); setRecordingTime(0);
\* audioChunksRef.current = []; getUserMedia({audio: true}) is requested.
\* The button is rendered when there is no result and isRecording is false,
\* and is disabled while isAnalyzing.
startRecording ==
    /\ activeTab = "voice"
    /\ voice.analysisResult = {} /\ ~voice.isRecording /\ ~voice.isAnalyzing
    /\ FirstIdle(recs, MicIds) # 0
    /\ LET i == FirstIdle(recs, MicIds) IN
        recs' = [recs EXCEPT ![i] =
                    [RecIdle EXCEPT !.phase = "pending", !.owner = TRUE,
                        !.closure = [recordingTime |-> voice.recordingTime,
                                     isRecording |-> voice.isRecording]]]
    /\ voice' = [voice EXCEPT !.error = NoError, !.recordingTime = 0]
    /\ UNCHANGED <<activeTab, face, cams, lastDraw>>

\* The percentages updateLevel can compute from the analyser's buffer.
Samples == {0, 100}

\* monitorAudioLevel and the first call of updateLevel, made by the
\* continuation of startRecording with the isRecording of its closure:
\* updateLevel returns at once unless analyserRef is set and isRecording holds.
monitorAudioLevel(v, isRecordingClosure, sample) ==
    IF ~v.analyserRef \/ ~isRecordingClosure THEN v
    ELSE [v EXCEPT !.audioLevel = IF sample < 100 THEN sample ELSE 100,
                   !.animationFrameRef = TRUE]

Throws == {"none", "AudioContext", "MediaRecorder", "start"}

\* The refs and state startRecording's continuation writes after the grant,
\* up to the point where the setup throws (throwAt), for the mounted instance.
startRecordingSetup(v, i, throwAt, c, sample) ==
    LET v1 == IF throwAt = "AudioContext" THEN v
              ELSE [v EXCEPT !.audioContextRef = i, !.analyserRef = TRUE]
        v2 == IF throwAt \in {"AudioContext", "MediaRecorder"} THEN v1
              ELSE [v1 EXCEPT !.mediaRecorderRef = i]
        v3 == IF throwAt # "none" THEN v2
              ELSE monitorAudioLevel(
                     [v2 EXCEPT !.isRecording = TRUE, !.timerRef = i],
                     c.isRecording, sample)
    IN IF throwAt = "none" THEN v3 ELSE [v3 EXCEPT !.error = ErrMic]

\* getUserMedia resolves with a stream: new AudioContext, createAnalyser,
\* new MediaRecorder, handlers, mediaRecorder.start(), setIsRecording(true),
\* setInterval, monitorAudioLevel(); an exception on the way goes to the catch,
\* which only sets the error.
getUserMediaAudioGranted(i, throwAt) ==
    /\ recs[i].phase = "pending"
    /\ recs' = TidyRecs([recs EXCEPT
                  ![i].phase = IF throwAt = "none" THEN "recording" ELSE "failed",
                  ![i].track = TRUE,
                  ![i].ctx = (throwAt # "AudioContext"),
                  ![i].timer = (throwAt = "none")])
    /\ \E sample \in IF recs[i].owner /\ recs[i].closure.isRecording
                      THEN Samples ELSE {0} :
         voice' = IF recs[i].owner
                  THEN startRecordingSetup(voice, i, throwAt, recs[i].closure, sample)
                  ELSE voice
    /\ UNCHANGED <<activeTab, face, cams, lastDraw>>

\* getUserMedia rejects (permission denied, no device): the catch sets the error.
getUserMediaAudioDenied(i) ==
    /\ recs[i].phase = "pending"
    /\ recs' = TidyRecs([recs EXCEPT ![i].phase = "denied"])
    /\ voice' = IF recs[i].owner THEN [voice EXCEPT !.error = ErrMic] ELSE voice
    /\ UNCHANGED <<activeTab, face, cams, lastDraw>>

\* One tick of the setInterval of invocation i: setRecordingTime(prev => prev + 1).
timerTick(i) ==
    /\ recs[i].timer /\ recs[i].owner
    /\ voice.recordingTime < MaxTime
    /\ voice' = [voice EXCEPT !.recordingTime = @ + 1]
    /\ UNCHANGED <<activeTab, face, cams, recs, lastDraw>>

\* The body of stopRecording, run with the isRecording of the closure it was
\* created in. MediaRecorder.stop() on an inactive recorder does nothing.
stopRecording(v, rs, isRecordingClosure) ==
    IF v.mediaRecorderRef # 0 /\ isRecordingClosure
    THEN LET m == v.mediaRecorderRef
             rs1 == IF rs[m].phase = "recording"
                    THEN [rs EXCEPT ![m].phase = "stopping",
                                    ![m].elapsed = v.recordingTime]
                    ELSE rs
             rs2 == IF v.timerRef # 0
                    THEN [rs1 EXCEPT ![v.timerRef].timer = FALSE] ELSE rs1
             rs3 == IF v.audioContextRef # 0
                    THEN [rs2 EXCEPT ![v.audioContextRef].ctx = FALSE] ELSE rs2
         IN [ v |-> [v EXCEPT !.isRecording = FALSE, !.timerRef = 0,
                              !.animationFrameRef = FALSE, !.audioContextRef = 0],
              rs |-> rs3 ]
    ELSE [ v |-> v, rs |-> rs ]

\* The "Stop & Analyze" button: rendered when there is no result and
\* isRecording is true; its handler is the stopRecording of that render.
stopRecordingClick ==
    /\ activeTab = "voice"
    /\ voice.analysisResult = {} /\ voice.isRecording
    /\ LET s == stopRecording(voice, recs, voice.isRecording) IN
        /\ voice' = s.v
        /\ recs' = TidyRecs(s.rs)
    /\ UNCHANGED <<activeTab, face, cams, lastDraw>>

\* The microphone is lost (unplugged, permission revoked): the track of every
\* live stream ends, so every recording MediaRecorder goes inactive and queues
\* its stop event. No handler of the component runs (the code registers none
\* for the track).
trackEnded ==
    /\ \E i \in MicIds : recs[i].phase = "recording"
    /\ recs' = TidyRecs([i \in MicIds |->
                  IF recs[i].phase = "recording"
                  THEN [recs[i] EXCEPT !.phase = "stopping", !.track = FALSE,
                                       !.elapsed = voice.recordingTime]
                  ELSE [recs[i] EXCEPT !.track = FALSE]])
    /\ UNCHANGED <<activeTab, face, cams, voice, lastDraw>>

\* A variant of onstop that checks the duration before the hand-off: a
\* recording shorter than the minimum gets the error at once and analyzeVoice
\* is not called.
onstopGated(i) ==
    /\ recs[i].phase = "stopping"
    /\ LET short == recs[i].closure.recordingTime < MinRecordingTime IN
        /\ recs' = TidyRecs([recs EXCEPT
                      ![i].phase = IF recs[i].owner /\ ~short THEN "analyzing" ELSE "done",
                      ![i].track = FALSE])
        /\ voice' = IF ~recs[i].owner THEN voice
                    ELSE IF short THEN [voice EXCEPT !.error = ErrTooShort]
                    ELSE [voice EXCEPT !.isAnalyzing = TRUE, !.error = NoError,
                                       !.timeouts = Append(@, i)]
    /\ UNCHANGED <<activeTab, face, cams, lastDraw>>

\* mediaRecorder.onstop: stops the tracks of its stream and calls analyzeVoice,
\* which runs up to its await: setIsAnalyzing(true); setError(null).
onstop(i) ==
    /\ recs[i].phase = "stopping"
    /\ recs' = TidyRecs([recs EXCEPT
                  ![i].phase = IF recs[i].owner THEN "analyzing" ELSE "done",
                  ![i].track = FALSE])
    /\ voice' = IF recs[i].owner
                THEN [voice EXCEPT !.isAnalyzing = TRUE, !.error = NoError,
                                   !.timeouts = Append(@, i)]
                ELSE voice
    /\ UNCHANGED <<activeTab, face, cams, lastDraw>>

\* analyzeVoice after the 2000 ms delay, with the recordingTime of its closure.
\* (The pitch, volume and clarity draws of the metrics are left out: nothing
\* reads them.)
analyzeVoice(v, recordingTimeClosure, r, u) ==
    IF recordingTimeClosure < MinRecordingTime
    THEN [v EXCEPT !.error = ErrTooShort, !.isAnalyzing = FALSE, !.recordingTime = 0]
    ELSE [v EXCEPT
            !.analysisResult =
                {[ status |-> VoiceHealthStatus(r),
                   confidence |-> confidence(VoiceHealthStatus(r), u),
                   metrics |-> [duration |-> recordingTimeClosure],
                   details |-> voiceDetails(r),
                   recommendations |-> voiceRecommendations(r) ]},
            !.isAnalyzing = FALSE, !.recordingTime = 0]

\* The delay of analyzeVoice elapses for invocation i of the mounted
\* component: the oldest of the pending timeouts. The draws are made only past
\* the duration check.
analyzeVoiceResolved(i, r, u) ==
    /\ recs[i].phase = "analyzing" /\ recs[i].owner
    /\ voice.timeouts # <<>> /\ Head(voice.timeouts) = i
    /\ recs[i].closure.recordingTime < MinRecordingTime => <<r, u>> = NotDrawn
    /\ LET rs == [recs EXCEPT ![i].phase = "done"]
           v == analyzeVoice([voice EXCEPT !.timeouts = Tail(@)],
                             recs[i].closure.recordingTime, r, u)
       IN /\ recs' = TidyRecs(rs)
          /\ voice' = v
          /\ lastDraw' = IF v.analysisResult # voice.analysisResult
                         THEN [lastDraw EXCEPT !.voice = r] ELSE lastDraw
    /\ UNCHANGED <<activeTab, face, cams>>

\* The delay elapses after the component was unmounted: the setters of
\* analyzeVoice change nothing.
analyzeVoiceUnmounted(i) ==
    /\ recs[i].phase = "analyzing" /\ ~recs[i].owner
    /\ recs' = TidyRecs([recs EXCEPT ![i].phase = "done"])
    /\ UNCHANGED <<activeTab, face, cams, voice, lastDraw>>

\* resetAnalysis ("New Analysis", rendered with a result).
resetAnalysisVoice ==
    /\ activeTab = "voice"
    /\ voice.analysisResult # {}
    /\ voice' = [voice EXCEPT !.analysisResult = {}, !.error = NoError,
                              !.recordingTime = 0, !.audioLevel = 0]
    /\ lastDraw' = [lastDraw EXCEPT !.voice = NoDraw]
    /\ recs' = [i \in MicIds |->
                  IF recs[i].phase = "analyzing" /\ recs[i].owner
                  THEN [recs[i] EXCEPT !.stale = TRUE] ELSE recs[i]]
    /\ UNCHANGED <<activeTab, face, cams>>

\* The useEffect cleanup of VoiceAnalysis. The effect has no dependencies, so
\* the cleanup calls the stopRecording of the first render, whose isRecording
\* is the initial value; it then cancels animationFrameRef.current and clears
\* timerRef.current. Returns the recs after the cleanup.
voiceCleanup(v, rs) ==
    LET s == stopRecording(v, rs, VoiceInit.isRecording)
    IN IF s.v.timerRef # 0 THEN [s.rs EXCEPT ![s.v.timerRef].timer = FALSE] ELSE s.rs

\* ================================================== FaceScan (part_000)

\* Bookkeeping after every step: a denied request and a stream whose track
\* was stopped leave nothing behind, so their slot is free again; a granted
\* request has no continuation left, so its owner is dropped.
TidyCams(cs) ==
    [i \in CamIds |->
        IF cs[i].phase = "denied" THEN CamIdle
        ELSE IF cs[i].phase = "granted" /\ ~cs[i].track THEN CamIdle
        ELSE IF cs[i].phase = "granted" THEN [cs[i] EXCEPT !.owner = FALSE]
        ELSE cs[i]]

\* videoRef.current is set only while the <video> element is rendered, which
\* the JSX does when there is no result and isCameraActive is true.
videoRef(f) == f.analysisResult = {} /\ f.isCameraActive

\* loadModel settles: setModel / setIsModelLoading(false), or the catch.
loadModelSettled(ok) ==
    /\ activeTab = "face"
    /\ face.isModelLoading
    /\ face' = IF ok THEN [face EXCEPT !.model = TRUE, !.isModelLoading = FALSE]
               ELSE [face EXCEPT !.error = ErrModel, !.isModelLoading = FALSE]
    /\ UNCHANGED <<activeTab, cams, voice, recs, lastDraw>>

\* startCamera, up to its await: setError(null); getUserMedia({video}) is
\* requested. "Start Camera" is rendered when there is no result and
\* isCameraActive is false, and is disabled while the model loads.
startCamera ==
    /\ activeTab = "face"
    /\ face.analysisResult = {} /\ ~face.isCameraActive /\ ~face.isModelLoading
    /\ ~face.picker
    /\ FirstIdle(cams, CamIds) # 0
    /\ cams' = [cams EXCEPT ![FirstIdle(cams, CamIds)] =
                  [CamIdle EXCEPT !.phase = "pending", !.owner = TRUE]]
    /\ face' = [face EXCEPT !.error = NoError]
    /\ UNCHANGED <<activeTab, voice, recs, lastDraw>>

\* getUserMedia resolves with a stream:
\* if (videoRef.current) { srcObject = stream; streamRef.current = stream;
\* setIsCameraActive(true) }.
getUserMediaVideoGranted(i) ==
    /\ cams[i].phase = "pending"
    /\ cams' = TidyCams([cams EXCEPT ![i].phase = "granted", ![i].track = TRUE])
    /\ face' = IF cams[i].owner /\ videoRef(face)
               THEN [face EXCEPT !.streamRef = i, !.isCameraActive = TRUE]
               ELSE face
    /\ UNCHANGED <<activeTab, voice, recs, lastDraw>>

\* getUserMedia rejects: the catch sets the error.
getUserMediaVideoDenied(i) ==
    /\ cams[i].phase = "pending"
    /\ cams' = TidyCams([cams EXCEPT ![i].phase = "denied"])
    /\ face' = IF cams[i].owner THEN [face EXCEPT !.error = ErrCamera] ELSE face
    /\ UNCHANGED <<activeTab, voice, recs, lastDraw>>

\* The body of stopCamera: the tracks of streamRef.current are stopped and the
\* ref cleared; returns the cams afterwards (the state it sets dies with the
\* component when it runs as the effect cleanup).
stopCamera(f, cs) ==
    IF f.streamRef # 0 THEN [cs EXCEPT ![f.streamRef].track = FALSE] ELSE cs

\* A variant of stopCameraFace that also withdraws the analyzing flag.
stopCameraClearsAnalyzing(f) ==
    [f EXCEPT !.streamRef = 0, !.isCameraActive = FALSE, !.isAnalyzing = FALSE]

\* What stopCamera leaves in the component: streamRef.current = null and
\* setIsCameraActive(false).
stopCameraFace(f) == [f EXCEPT !.streamRef = 0, !.isCameraActive = FALSE]

\* The "Upload Image" button: fileInputRef.current?.click() opens the file
\* dialog. The button is rendered when there is no result and is disabled
\* while the model loads, an analysis runs or the camera is active. The dialog
\* is modal: until it is closed the page takes no click.
uploadImageClick ==
    /\ activeTab = "face"
    /\ face.analysisResult = {}
    /\ ~face.isModelLoading /\ ~face.isAnalyzing /\ ~face.isCameraActive
    /\ ~face.picker
    /\ face' = [face EXCEPT !.picker = TRUE]
    /\ UNCHANGED <<activeTab, cams, voice, recs, lastDraw>>

\* handleFileUpload, the change handler of the input, up to img.src: returns
\* unless a file was chosen (chosen false: the dialog was dismissed) and the
\* model is loaded; setIsAnalyzing(true); setError(null).
handleFileUpload(chosen) ==
    /\ activeTab = "face"
    /\ face.picker
    /\ face' = IF chosen /\ face.model
               THEN [face EXCEPT !.picker = FALSE, !.isAnalyzing = TRUE,
                                 !.error = NoError, !.pc = "img.onload"]
               ELSE [face EXCEPT !.picker = FALSE]
    /\ UNCHANGED <<activeTab, cams, voice, recs, lastDraw>>

\* The probability the detector reports for the first region, in hundredths
\* (0: the prediction carries none).
Probabilities == {0, 98}

\* The probabilities a detection that resolved with `predictions` regions
\* can carry for its first region.
ProbabilitiesOf(predictions) == IF predictions > 0 THEN Probabilities ELSE {0}

\* A variant of imgOnload that goes to the analysis without the detection.
imgOnloadWithoutDetection ==
    /\ activeTab = "face"
    /\ face.pc = "img.onload"
    /\ face' = [face EXCEPT !.pc = "analyzeHealth", !.faceCount = 1]
    /\ UNCHANGED <<activeTab, cams, voice, recs, lastDraw>>

\* img.onload: the image is drawn and model.estimateFaces is awaited.
imgOnload ==
    /\ activeTab = "face"
    /\ face.pc = "img.onload"
    /\ face' = [face EXCEPT !.pc = "estimateFaces"]
    /\ UNCHANGED <<activeTab, cams, voice, recs, lastDraw>>

\* The chosen file cannot be decoded as an image: the error event fires
\* instead of load. No onerror handler is registered, so nothing runs: the
\* upload flow is over with the state handleFileUpload left.
imgOnerror ==
    /\ activeTab = "face"
    /\ face.pc = "img.onload"
    /\ face' = [face EXCEPT !.pc = "idle"]
    /\ UNCHANGED <<activeTab, cams, voice, recs, lastDraw>>

DetectorThrows == 0 - 1

\* A variant of uploadAfterDetection without the zero-length branch.
uploadWithoutZeroCheck(f, predictions) ==
    IF predictions = DetectorThrows
    THEN [f EXCEPT !.error = ErrAnalysis, !.isAnalyzing = FALSE, !.pc = "idle"]
    ELSE [f EXCEPT !.pc = "analyzeHealth", !.faceCount = predictions]

\* A variant of uploadAfterDetection without the catch: a rejection of
\* estimateFaces ends the handler with nothing set.
uploadWithoutCatch(f, predictions) ==
    IF predictions = DetectorThrows
    THEN [f EXCEPT !.pc = "idle"]
    ELSE IF predictions = 0
    THEN [f EXCEPT !.error = ErrNoFaceUpload, !.isAnalyzing = FALSE, !.pc = "idle"]
    ELSE [f EXCEPT !.pc = "analyzeHealth", !.faceCount = predictions]

\* The upload flow after estimateFaces settled with `predictions` regions
\* (DetectorThrows: it rejected): the zero-length branch, the catch, or the
\* call of analyzeHealth, which starts its delay.
uploadAfterDetection(f, predictions) ==
    IF predictions = DetectorThrows
    THEN [f EXCEPT !.error = ErrAnalysis, !.isAnalyzing = FALSE, !.pc = "idle"]
    ELSE IF predictions = 0
    THEN [f EXCEPT !.error = ErrNoFaceUpload, !.isAnalyzing = FALSE, !.pc = "idle"]
    ELSE [f EXCEPT !.pc = "analyzeHealth", !.faceCount = predictions]

estimateFacesSettled(predictions) ==
    /\ activeTab = "face"
    /\ face.pc = "estimateFaces"
    /\ \E p \in ProbabilitiesOf(predictions) :
          face' = uploadAfterDetection(
                     [face EXCEPT !.faceCount = 0, !.probability = p], predictions)
    /\ UNCHANGED <<activeTab, cams, voice, recs, lastDraw>>

\* A variant of analyzeHealth that weighs the confidence with the
\* probability of the detection.
analyzeHealthWeighted(f, r, u) ==
    LET confidence0 == IF f.probability = 0 THEN 95 ELSE f.probability
    IN [f EXCEPT !.analysisResult =
                {[ status |-> HealthStatus(r),
                   confidence |-> MathRound(finalConfidence(HealthStatus(r), u)
                                               * confidence0, 100),
                   details |-> faceDetails(r),
                   recommendations |-> faceRecommendations(r) ]},
              !.isAnalyzing = FALSE, !.pc = "idle", !.probability = 0]

\* analyzeHealth after the 2000 ms delay: faceCount = predictions.length and
\* confidence0 = predictions[0]?.probability || 0.95 (the local `confidence`)
\* are computed and not used; the result is published; back in the upload
\* flow, setIsAnalyzing(false). The predictions are gone with the call.
analyzeHealth(f, r, u) ==
    LET faceCount == f.faceCount
        confidence0 == IF f.probability = 0 THEN 95 ELSE f.probability
    IN [f EXCEPT !.analysisResult =
                {[ status |-> HealthStatus(r),
                   confidence |-> finalConfidence(HealthStatus(r), u),
                   details |-> faceDetails(r),
                   recommendations |-> faceRecommendations(r) ]},
              !.isAnalyzing = FALSE, !.pc = "idle", !.probability = 0]

analyzeHealthResolved(r, u) ==
    /\ activeTab = "face"
    /\ face.pc = "analyzeHealth"
    /\ face' = analyzeHealth(face, r, u)
    /\ lastDraw' = [lastDraw EXCEPT !.face = r, !.flow = "upload"]
    /\ UNCHANGED <<activeTab, cams, voice, recs>>

\* A variant of resetAnalysisFace that leaves the error as it is.
resetKeepsError ==
    /\ activeTab = "face"
    /\ face.analysisResult # {} /\ ~face.picker
    /\ face' = [face EXCEPT !.analysisResult = {}]
    /\ lastDraw' = [lastDraw EXCEPT !.face = NoDraw, !.flow = "none"]
    /\ UNCHANGED <<activeTab, cams, voice, recs>>

\* resetAnalysis ("New Scan", rendered with a result).
resetAnalysisFace ==
    /\ activeTab = "face"
    /\ face.analysisResult # {} /\ ~face.picker
    /\ face' = [face EXCEPT !.analysisResult = {}, !.error = NoError]
    /\ lastDraw' = [lastDraw EXCEPT !.face = NoDraw, !.flow = "none"]
    /\ UNCHANGED <<activeTab, cams, voice, recs>>

\* ------------------------------------------------ the camera capture flow
\* In the program videoRef.current is null at every grant (see videoRef), so
\* isCameraActive is never set and the handlers below cannot be invoked. They
\* are modelled for CaptureSpec, which takes the other branch of startCamera.

\* startCamera's continuation in the branch where videoRef.current is set:
\* srcObject = stream; streamRef.current = stream; setIsCameraActive(true).
getUserMediaVideoGrantedWithVideo(i) ==
    /\ activeTab = "face"
    /\ cams[i].phase = "pending" /\ cams[i].owner
    /\ cams' = TidyCams([cams EXCEPT ![i].phase = "granted", ![i].track = TRUE])
    /\ face' = [face EXCEPT !.streamRef = i, !.isCameraActive = TRUE]
    /\ UNCHANGED <<activeTab, voice, recs, lastDraw>>

\* captureAndAnalyze, up to its await. "Capture & Analyze" is rendered when
\* there is no result and isCameraActive is true, and is disabled while
\* isAnalyzing. It returns at once without a model, and returns after
\* setIsAnalyzing(true) when the canvas gives no 2d context (ctxOk false).
captureAndAnalyze(ctxOk) ==
    /\ activeTab = "face"
    /\ face.analysisResult = {} /\ face.isCameraActive /\ ~face.isAnalyzing
    /\ ~face.picker
    /\ face' = IF ~face.model THEN face
               ELSE IF ~ctxOk
               THEN [face EXCEPT !.isAnalyzing = TRUE, !.error = NoError]
               ELSE [face EXCEPT !.isAnalyzing = TRUE, !.error = NoError,
                                 !.pc = "capture.estimateFaces"]
    /\ UNCHANGED <<activeTab, cams, voice, recs, lastDraw>>

\* A variant of captureAfterDetection whose zero-length branch also ends the
\* camera session in the component, as the end of a successful capture does.
captureNoFaceEndsCamera(f, predictions) ==
    IF predictions = DetectorThrows
    THEN [f EXCEPT !.error = ErrAnalysis, !.isAnalyzing = FALSE, !.pc = "idle"]
    ELSE IF predictions = 0
    THEN stopCameraFace([f EXCEPT !.error = ErrNoFaceCapture,
                                  !.isAnalyzing = FALSE, !.pc = "idle"])
    ELSE [f EXCEPT !.pc = "capture.analyzeHealth", !.faceCount = predictions]

\* The capture flow after estimateFaces settled with `predictions` regions
\* (DetectorThrows: it rejected): the zero-length branch, the catch followed
\* by setIsAnalyzing(false), or the call of analyzeHealth.
captureAfterDetection(f, predictions) ==
    IF predictions = DetectorThrows
    THEN [f EXCEPT !.error = ErrAnalysis, !.isAnalyzing = FALSE, !.pc = "idle"]
    ELSE IF predictions = 0
    THEN [f EXCEPT !.error = ErrNoFaceCapture, !.isAnalyzing = FALSE, !.pc = "idle"]
    ELSE [f EXCEPT !.pc = "capture.analyzeHealth", !.faceCount = predictions]

captureEstimateFacesSettled(predictions) ==
    /\ activeTab = "face"
    /\ face.pc = "capture.estimateFaces"
    /\ \E p \in ProbabilitiesOf(predictions) :
          face' = captureAfterDetection(
                     [face EXCEPT !.faceCount = 0, !.probability = p], predictions)
    /\ UNCHANGED <<activeTab, cams, voice, recs, lastDraw>>

\* A variant of captureAfterAnalysis that leaves the camera session as it is.
captureKeepsCamera(f) == f

\* The capture flow after analyzeHealth published its result: stopCamera();
\* setIsAnalyzing(false).
captureAfterAnalysis(f) == stopCameraFace(f)

captureAnalyzeHealthResolved(r, u) ==
    /\ activeTab = "face"
    /\ face.pc = "capture.analyzeHealth"
    /\ face' = captureAfterAnalysis(analyzeHealth(face, r, u))
    /\ cams' = TidyCams(stopCamera(face, cams))
    /\ lastDraw' = [lastDraw EXCEPT !.face = r, !.flow = "capture"]
    /\ UNCHANGED <<activeTab, voice, recs>>

\* The "Stop Camera" button: rendered when there is no result and
\* isCameraActive is true, disabled while isAnalyzing.
stopCameraClick ==
    /\ activeTab = "face"
    /\ face.analysisResult = {} /\ face.isCameraActive /\ ~face.isAnalyzing
    /\ ~face.picker
    /\ face' = stopCameraFace(face)
    /\ cams' = TidyCams(stopCamera(face, cams))
    /\ UNCHANGED <<activeTab, voice, recs, lastDraw>>

\* ================================================================ App.tsx

\* The tab changes: the component of the old tab unmounts (its effect cleanup
\* runs, its state is gone, its pending continuations set nothing any more) and
\* the component of the new tab mounts with fresh state.
setActiveTab(tab) ==
    /\ tab # activeTab
    /\ ~face.picker
    /\ activeTab' = tab
    /\ IF activeTab = "voice"
       THEN /\ recs' = TidyRecs([i \in MicIds |->
                        [voiceCleanup(voice, recs)[i] EXCEPT !.owner = FALSE]])
            /\ cams' = cams
       ELSE /\ cams' = [i \in CamIds |-> [stopCamera(face, cams)[i] EXCEPT !.owner = FALSE]]
            /\ recs' = recs
    /\ face' = FaceInit
    /\ voice' = VoiceInit
    /\ lastDraw' = NoDraws

Next ==
    \/ \E tab \in {"face", "voice"} : setActiveTab(tab)
    \/ \E ok \in BOOLEAN : loadModelSettled(ok)
    \/ startCamera
    \/ \E i \in CamIds : getUserMediaVideoGranted(i)
    \/ \E i \in CamIds : getUserMediaVideoDenied(i)
    \/ uploadImageClick
    \/ \E chosen \in BOOLEAN : handleFileUpload(chosen)
    \/ imgOnload
    \/ imgOnerror
    \/ \E n \in {DetectorThrows} \cup (0..MaxFaces) : estimateFacesSettled(n)
    \/ \E d \in Draws : analyzeHealthResolved(d[1], d[2])
    \/ resetAnalysisFace
    \/ startRecording
    \/ \E i \in MicIds, t \in Throws : getUserMediaAudioGranted(i, t)
    \/ \E i \in MicIds : getUserMediaAudioDenied(i)
    \/ \E i \in MicIds : timerTick(i)
    \/ stopRecordingClick
    \/ \E i \in MicIds : onstop(i)
    \/ \E i \in MicIds, d \in Draws : analyzeVoiceResolved(i, d[1], d[2])
    \/ \E i \in MicIds : analyzeVoiceUnmounted(i)
    \/ resetAnalysisVoice

Spec == Init /\ [][Next]_vars

\* The program in an environment that can also take the microphone away
\* during a recording.
NextWithLoss ==
    \/ Next
    \/ trackEnded

LossSpec == Init /\ [][NextWithLoss]_vars

\* Each component on its own, from its mount up to its unmount, with the
\* <video> element taken as mounted at the grant of the camera: the camera
\* session and the capture handlers, which the program never reaches.
CaptureInit ==
    /\ activeTab \in {"face", "voice"}
    /\ face = FaceInit
    /\ cams = [i \in CamIds |-> CamIdle]
    /\ voice = VoiceInit
    /\ recs = [i \in MicIds |-> RecIdle]
    /\ lastDraw = NoDraws

NextCapture ==
    \/ \E ok \in BOOLEAN : loadModelSettled(ok)
    \/ startCamera
    \/ \E i \in CamIds : getUserMediaVideoGrantedWithVideo(i)
    \/ \E i \in CamIds : getUserMediaVideoDenied(i)
    \/ \E ctxOk \in BOOLEAN : captureAndAnalyze(ctxOk)
    \/ \E n \in {DetectorThrows} \cup (0..MaxFaces) : captureEstimateFacesSettled(n)
    \/ \E d \in Draws : captureAnalyzeHealthResolved(d[1], d[2])
    \/ stopCameraClick
    \/ uploadImageClick
    \/ \E chosen \in BOOLEAN : handleFileUpload(chosen)
    \/ imgOnload
    \/ imgOnerror
    \/ \E n \in {DetectorThrows} \cup (0..MaxFaces) : estimateFacesSettled(n)
    \/ \E d \in Draws : analyzeHealthResolved(d[1], d[2])
    \/ resetAnalysisFace
    \/ startRecording
    \/ \E i \in MicIds, t \in Throws : getUserMediaAudioGranted(i, t)
    \/ \E i \in MicIds : getUserMediaAudioDenied(i)
    \/ \E i \in MicIds : timerTick(i)
    \/ stopRecordingClick
    \/ \E i \in MicIds : onstop(i)
    \/ \E i \in MicIds, d \in Draws : analyzeVoiceResolved(i, d[1], d[2])
    \/ resetAnalysisVoice

CaptureSpec == CaptureInit /\ [][NextCapture]_vars

\* The program with the scheduling the platform guarantees for a stopped
\* recorder: MediaRecorder.stop() queues a task that fires the stop event, and
\* a queued task is run.
StopEventFairness == \A i \in MicIds : WF_vars(onstop(i))

\* The continuations the platform runs without the user: the image settles
\* (load or error), a promise of the detector settles, a timeout elapses, a
\* queued stop event is delivered.
AnalysisFairness ==
    /\ WF_vars(imgOnload \/ imgOnerror)
    /\ WF_vars(\E n \in {DetectorThrows} \cup (0..MaxFaces) : estimateFacesSettled(n))
    /\ WF_vars(\E d \in Draws : analyzeHealthResolved(d[1], d[2]))
    /\ \A i \in MicIds : WF_vars(\E d \in Draws : analyzeVoiceResolved(i, d[1], d[2]))

\* What the platform settles or fires by itself, with no step of the user:
\* the promise of the model load, the promise of each getUserMedia call, the
\* interval of each recording and the timeout of an unmounted analysis.
SettlementFairness ==
    /\ WF_vars(\E ok \in BOOLEAN : loadModelSettled(ok))
    /\ \A i \in CamIds :
          WF_vars(getUserMediaVideoGranted(i) \/ getUserMediaVideoDenied(i))
    /\ \A i \in MicIds :
          WF_vars((\E t \in Throws : getUserMediaAudioGranted(i, t))
                     \/ getUserMediaAudioDenied(i))
    /\ \A i \in MicIds : WF_vars(timerTick(i))
    /\ \A i \in MicIds : WF_vars(analyzeVoiceUnmounted(i))

FairSpec == Spec /\ StopEventFairness

ProgressSpec ==
    Spec /\ StopEventFairness /\ AnalysisFairness /\ SettlementFairness

FairCaptureSpec == CaptureSpec /\ StopEventFairness

\* The two classifiers on their own: the component is at the point where
\* the delay of its analysis is about to elapse, with any detection behind it
\* (face: an upload whose detector found 1..MaxRegions regions, with any
\* probability) or any recording (voice: the second recording of the mount,
\* started with any recordingTime on display and stopped after any time; the
\* first has ended).
ClassifierInit ==
    /\ activeTab \in {"face", "voice"}
    /\ cams = [i \in CamIds |-> CamIdle]
    /\ lastDraw = NoDraws
    /\ IF activeTab = "face"
       THEN /\ face \in { [FaceInit EXCEPT !.isModelLoading = FALSE, !.model = TRUE,
                                            !.isAnalyzing = TRUE, !.pc = "analyzeHealth",
                                            !.faceCount = n, !.probability = p] :
                             n \in 1..MaxRegions, p \in Probabilities }
            /\ voice = VoiceInit
            /\ recs = [i \in MicIds |-> RecIdle]
       ELSE /\ face = FaceInit
            /\ \E t \in 0..MaxDuration, e \in 0..MaxDuration :
                  /\ voice = [VoiceInit EXCEPT !.isAnalyzing = TRUE, !.recordingTime = e,
                                               !.mediaRecorderRef = 2, !.analyserRef = TRUE,
                                               !.timeouts = <<2>>]
                  /\ recs = [i \in MicIds |->
                               IF i = 1 THEN [RecIdle EXCEPT !.phase = "done"]
                               ELSE IF i = 2
                               THEN [RecIdle EXCEPT !.phase = "analyzing", !.owner = TRUE,
                                                    !.closure.recordingTime = t,
                                                    !.elapsed = e]
                               ELSE RecIdle]

NextClassifier ==
    \/ \E d \in Draws : analyzeHealthResolved(d[1], d[2])
    \/ \E i \in MicIds, d \in Draws : analyzeVoiceResolved(i, d[1], d[2])

ClassifierSpec == ClassifierInit /\ [][NextClassifier]_vars

\* ================================================================ properties

\* The status table of the specification, for a draw r in hundredths.
StatusOfDraw(r) ==
    IF r > 70 THEN "healthy"
    ELSE IF r > 35 /\ r <= 70 THEN "needs-consultation"
    ELSE "high-risk"

Statuses == {"healthy", "needs-consultation", "high-risk"}

\* C1: in both modes the status of a produced result is the one the table
\* gives for the draw behind it (healthy above 0.70, needs-consultation in
\* (0.35, 0.70], high-risk up to 0.35, so 0.70 is needs-consultation and 0.35
\* is high-risk), and it is never outside the three statuses.
C1_StatusFollowsDraw ==
    /\ \A res \in face.analysisResult :
          /\ lastDraw.face # NoDraw
          /\ res.status = StatusOfDraw(lastDraw.face)
          /\ res.status \in Statuses
    /\ \A res \in voice.analysisResult :
          /\ lastDraw.voice # NoDraw
          /\ res.status = StatusOfDraw(lastDraw.voice)
          /\ res.status \in Statuses

\* C1 witness: a face result produced from the draw 0.70 exactly.
C1_Witness ==
    \E res \in face.analysisResult :
        lastDraw.face = 70 /\ res.status = "needs-consultation"

\* The confidence range the specification gives for a status.
ConfidenceRange(status) ==
    IF status = "healthy" THEN 75..95
    ELSE IF status = "needs-consultation" THEN 60..75
    ELSE 55..65

\* C2: in both modes the confidence of a produced result is an integer in the
\* range of its status: [75,95], [60,75] or [55,65].
C2_ConfidenceInRange ==
    \A res \in face.analysisResult \cup voice.analysisResult :
        res.confidence \in ConfidenceRange(res.status)

\* C2 witness: a voice result that is healthy with the top confidence, 95.
C2_Witness ==
    \E res \in voice.analysisResult :
        res.status = "healthy" /\ res.confidence = 95

\* The step in which the delay of analyzeVoice elapses for invocation i of
\* the mounted component.
AnalysisEnds(i) ==
    /\ recs[i].phase = "analyzing" /\ recs[i].owner
    /\ recs'[i].phase = "done"

\* C3: a voice recording stopped at d >= 3 seconds ends with a result whose
\* metrics.duration is d, and without the RecordingTooShort error.
C3_LongRecordingGivesResult ==
    [][\A i \in MicIds :
          (AnalysisEnds(i) /\ recs[i].elapsed >= MinRecordingTime)
          => /\ voice'.error # ErrTooShort
             /\ \E res \in voice'.analysisResult :
                    res.metrics.duration = recs[i].elapsed]_vars

\* C4: a voice recording stopped before 3 seconds ends with the
\* RecordingTooShort error, no result and the recording time back at 0,
\* whatever was recorded before.
C4_ShortRecordingFails ==
    [][\A i \in MicIds :
          (AnalysisEnds(i) /\ recs[i].elapsed < MinRecordingTime)
          => /\ voice'.error = ErrTooShort
             /\ voice'.analysisResult = {}
             /\ voice'.recordingTime = 0]_vars

C6_OneSessionPerKind ==
    /\ Cardinality({i \in CamIds : cams[i].track}) <= 1
    /\ Cardinality({i \in MicIds : recs[i].track}) <= 1
    /\ Cardinality({i \in MicIds : recs[i].phase = "recording"}) <= 1
    /\ Cardinality({i \in MicIds : recs[i].timer}) <= 1

\* C7: when the request of startCamera or startRecording of the mounted
\* component is granted, the stream is stored in the session (streamRef, the
\* recorder ref) and the session is marked active.
C7_GrantStoresAndActivates ==
    [][/\ \A i \in CamIds :
             (cams[i].phase = "pending" /\ cams[i].owner /\ cams'[i].track)
             => (face'.streamRef = i /\ face'.isCameraActive)
       /\ \A i \in MicIds :
             (recs[i].phase = "pending" /\ recs[i].owner /\ recs'[i].track)
             => (voice'.mediaRecorderRef = i /\ voice'.isRecording)]_vars

\* Invocation i is the only startRecording of the mounted component that has
\* not come to its end.
OnlyAttempt(i) ==
    \A j \in MicIds \ {i} : recs[j].phase \in {"idle", "denied", "failed", "done"}

\* C8: when a start of the mounted component fails (the request is rejected,
\* or the setup after the grant throws) the error message is set and the
\* session is inactive: flag false, no timer, no monitoring loop, no live
\* track of that attempt.
C8_FailedStartLeavesInactive ==
    [][/\ \A i \in CamIds :
             (cams[i].phase = "pending" /\ cams[i].owner
                /\ cams'[i].phase \notin {"pending", "granted"})
             => /\ face'.error = ErrCamera
                /\ ~face'.isCameraActive
                /\ ~cams'[i].track
       /\ \A i \in MicIds :
             (recs[i].phase = "pending" /\ recs[i].owner /\ OnlyAttempt(i)
                /\ recs'[i].phase \in {"denied", "failed"})
             => /\ voice'.error = ErrMic
                /\ ~voice'.isRecording
                /\ ~recs'[i].timer
                /\ ~voice'.animationFrameRef
                /\ ~recs'[i].track]_vars

\* C9: when the component is torn down with a session active, stop is
\* carried out: no camera track stays live, and no recorder of the voice
\* component is left recording (its stop event is what releases the
\* microphone).
C9_TeardownStops ==
    [][/\ (activeTab = "face" /\ activeTab' # "face" /\ face.isCameraActive)
          => \A i \in CamIds : ~cams'[i].track
       /\ (activeTab = "voice" /\ activeTab' # "voice" /\ voice.isRecording)
          => \A i \in MicIds : recs[i].owner => recs'[i].phase # "recording"]_vars

\* C10: a duration timer or an animation callback is scheduled only while
\* its recording is in progress in the mounted component: none is left after
\* stopRecording or after the teardown.
C10_NoOrphanedCallbacks ==
    /\ \A i \in MicIds :
          recs[i].timer => (recs[i].owner /\ recs[i].phase = "recording")
    /\ voice.animationFrameRef => voice.isRecording

\* The invocations of the mounted VoiceAnalysis whose analyzeVoice is in its
\* delay.
AnalysesInFlight ==
    {i \in MicIds : recs[i].owner /\ recs[i].phase = "analyzing"}

\* C11: at most one analysis is in flight per mode: never two analyzeVoice
\* calls of the mounted component in their delay at once, and a face flow in
\* progress keeps isAnalyzing true, which disables its triggers.
C11_OneAnalysisInFlight ==
    /\ Cardinality(AnalysesInFlight) <= 1
    /\ face.pc # "idle" => face.isAnalyzing

\* C12: an analysis that was in its delay when resetAnalysis ran writes
\* neither a result nor an error when it resolves: the state the reset
\* cleared stays cleared.
C12_ResetNotUndone ==
    [][\A i \in MicIds :
          (AnalysisEnds(i) /\ recs[i].stale)
          => /\ voice'.analysisResult = voice.analysisResult
             /\ voice'.error = voice.error]_vars

\* The step in which a capture publishes its result.
CapturePublishes ==
    /\ face.pc = "capture.analyzeHealth"
    /\ face.analysisResult = {} /\ face'.analysisResult # {}

InAnalysis(pc) == pc \in {"analyzeHealth", "capture.analyzeHealth"}
InDetection(pc) == pc \in {"estimateFaces", "capture.estimateFaces"}

\* C14: the steps of a payload come in order. A face result is published only
\* by a flow that waits in analyzeHealth, which it entered from a detection
\* that returned at least one region, itself entered from the loaded image
\* (upload) or the click on the live camera (capture); a voice result is
\* published only when the delay of an analyzeVoice ends, which was entered
\* from the stop event of a stopped recorder. The publication is a later step
\* than the start of the analysis, so not before its delay.
C14_StepsInOrder ==
    [][/\ (face.analysisResult = {} /\ face'.analysisResult # {})
          => (InAnalysis(face.pc) /\ face.faceCount > 0)
       /\ (~InAnalysis(face.pc) /\ InAnalysis(face'.pc))
          => (InDetection(face.pc) /\ face'.faceCount > 0
                /\ face'.analysisResult = {})
       /\ (~InDetection(face.pc) /\ InDetection(face'.pc))
          => \/ face.pc = "img.onload" /\ face'.pc = "estimateFaces"
             \/ face.pc = "idle" /\ face'.pc = "capture.estimateFaces"
       /\ (voice.analysisResult = {} /\ voice'.analysisResult # {})
          => \E i \in MicIds : AnalysisEnds(i)
       /\ \A i \in MicIds :
             /\ (recs[i].phase # "analyzing" /\ recs'[i].phase = "analyzing")
                => (recs[i].phase = "stopping"
                      /\ voice'.analysisResult = voice.analysisResult)
             /\ (recs[i].phase # "stopping" /\ recs'[i].phase = "stopping")
                => recs[i].phase = "recording"]_vars

\* C14 witness: a voice result is on display, published at the end of the
\* analysis of a recording that was stopped.
C14_Witness ==
    /\ voice.analysisResult # {}
    /\ ~voice.isAnalyzing
    /\ \E i \in MicIds : recs[i].phase = "done" /\ ~recs[i].track

\* C15: a result and an error message are never present together: in every
\* state with a result on display the error of that mode is empty.
C15_NoErrorWithResult ==
    /\ face.analysisResult # {} => face.error = NoError
    /\ voice.analysisResult # {} => voice.error = NoError

\* The step is resetAnalysis of the face / of the voice component: the only
\* step that removes a result while the component stays mounted.
ResetsFace ==
    face.analysisResult # {} /\ face'.analysisResult = {} /\ activeTab' = activeTab
ResetsVoice ==
    voice.analysisResult # {} /\ voice'.analysisResult = {} /\ activeTab' = activeTab

\* C16: resetAnalysis leaves no result and no error, and in voice mode
\* recordingTime and audioLevel at 0, whatever was set before it.
C16_ResetClears ==
    [][/\ ResetsFace => face'.error = NoError
       /\ ResetsVoice => /\ voice'.error = NoError
                         /\ voice'.recordingTime = 0
                         /\ voice'.audioLevel = 0]_vars

\* C16 witness: the voice component right after a reset made while an
\* analysis was still in its delay: nothing of the old result is left.
C16_Witness ==
    /\ \E i \in MicIds : recs[i].stale
    /\ voice.analysisResult = {} /\ voice.error = NoError
    /\ voice.recordingTime = 0 /\ voice.audioLevel = 0

\* ---------------------------------------------------------------- C17
\* stopRecording run a second time from the same render (the same closure
\* value of isRecording) leaves what the first run left.
StopRecordingTwice(c) ==
    LET once == stopRecording(voice, recs, c)
    IN stopRecording(once.v, once.rs, c) = once

\* stopCamera run a second time leaves what the first run left.
StopCameraTwice ==
    LET f1 == stopCameraFace(face)
        c1 == stopCamera(face, cams)
    IN stopCameraFace(f1) = f1 /\ stopCamera(f1, c1) = c1

\* C17: in every reachable state, a stop with no session active (no stream
\* handle and the camera flag false; isRecording false) changes nothing, the
\* error message included, and a stop called twice in a row leaves the state
\* that one call leaves.
C17_StopIdempotent ==
    /\ (face.streamRef = 0 /\ ~face.isCameraActive)
          => (stopCameraFace(face) = face /\ stopCamera(face, cams) = cams)
    /\ ~voice.isRecording
          => stopRecording(voice, recs, voice.isRecording) = [v |-> voice, rs |-> recs]
    /\ StopCameraTwice
    /\ \A c \in BOOLEAN : StopRecordingTwice(c)

\* C17 witness: stopRecording has acted (the session's recorder is stopping,
\* the timer and the audio context are released) and the recorder handle is
\* still stored, so that a second call finds a recorder that is inactive.
C17_Witness ==
    /\ voice.mediaRecorderRef # 0
    /\ ~voice.isRecording
    /\ recs[voice.mediaRecorderRef].phase = "stopping"
    /\ voice.timerRef = 0 /\ voice.audioContextRef = 0
    /\ stopRecording(voice, recs, TRUE).rs = recs

\* ---------------------------------------------------------------- C18
\* The step in which estimateFaces rejects, in the upload or the capture flow.
DetectorThrew ==
    \/ estimateFacesSettled(DetectorThrows)
    \/ captureEstimateFacesSettled(DetectorThrows)

LostRecorderStops(i) ==
    /\ voice.mediaRecorderRef = i /\ voice.isRecording
    /\ recs[i].phase = "stopping" /\ recs'[i].phase = "analyzing"

\* C19: when the recorder of the session stops because the microphone was
\* lost, the session ends as after a stop: isRecording is false, the duration
\* timer and the amplitude loop of the session are cancelled, its audio
\* context is closed, and the recording is handed to analyzeVoice.
C19_LossIsStop ==
    [][\A i \in MicIds :
          LostRecorderStops(i)
          => /\ voice'.isAnalyzing
             /\ ~voice'.isRecording
             /\ ~recs'[i].timer
             /\ ~voice'.animationFrameRef
             /\ ~recs'[i].ctx]_vars

StopEventHandled(i) ==
    recs[i].phase = "stopping" /\ recs'[i].phase # "stopping"

C23_LiveTasksRun ==
    /\ \A i \in MicIds :
          (/\ voice.isRecording /\ voice.mediaRecorderRef = i
           /\ recs[i].owner /\ recs[i].phase = "recording")
          => (recs[i].timer /\ voice.animationFrameRef)
    /\ ~voice.isRecording => ~voice.animationFrameRef

\* ---------------------------------------------------------------- C24
\* C24: an analysis attempt always ends: whenever isAnalyzing is true in a
\* mode it is false again later, so that the triggers it disables are
\* enabled again.
C24_AnalysisTerminates ==
    /\ face.isAnalyzing ~> ~face.isAnalyzing
    /\ voice.isAnalyzing ~> ~voice.isAnalyzing

\* ---------------------------------------------------------------- C25
\* The recording of invocation i is the active recording of the session.
ActiveRecording(v, rs, i) ==
    v.isRecording /\ v.mediaRecorderRef = i /\ rs[i].owner /\ rs[i].phase = "recording"

\* C25: recordingTime is a natural number; it is 0 in the step that starts a
\* recording; a step during an active recording leaves it or adds exactly 1
\* to it, and never lowers it.
C25_ElapsedMonotone ==
    [][/\ voice'.recordingTime \in 0..MaxTime
       /\ \A i \in MicIds :
             (~ActiveRecording(voice, recs, i) /\ ActiveRecording(voice', recs', i))
             => voice'.recordingTime = 0
       /\ \A i \in MicIds :
             (ActiveRecording(voice, recs, i) /\ ActiveRecording(voice', recs', i))
             => voice'.recordingTime \in {voice.recordingTime, voice.recordingTime + 1}]_vars

\* ---------------------------------------------------------------- C26
\* The places of the upload flow: waiting for the image, for the detector,
\* for the delay of analyzeHealth.
UploadPcs == {"img.onload", "estimateFaces", "analyzeHealth"}

\* A step of the upload flow: it starts, moves on, or ends.
UploadStep ==
    /\ activeTab' = activeTab
    /\ face'.pc # face.pc
    /\ {face.pc, face'.pc} \subseteq UploadPcs \cup {"idle"}

CatalogDetails(mode, status) ==
    IF mode = "face"
    THEN IF status = "healthy"
         THEN << "Normal facial symmetry detected",
                 "Skin tone analysis: Within normal range",
                 "Eye analysis: No visible abnormalities",
                 "Facial temperature estimation: Normal" >>
         ELSE IF status = "needs-consultation"
         THEN << "Minor facial asymmetry detected",
                 "Skin tone variation observed",
                 "Eye fatigue indicators present",
                 "Possible signs of stress or fatigue" >>
         ELSE << "Significant facial irregularities detected",
                 "Abnormal skin tone patterns observed",
                 "Multiple risk indicators present",
                 "Immediate medical attention may be needed" >>
    ELSE IF status = "healthy"
         THEN << "Voice pitch within normal range",
                 "Clear pronunciation detected",
                 "No irregular breathing patterns",
                 "Normal speech tempo",
                 "No signs of voice strain or hoarseness" >>
         ELSE IF status = "needs-consultation"
         THEN << "Minor voice irregularities detected",
                 "Slight hoarseness or strain observed",
                 "Irregular breathing pattern noticed",
                 "Voice pitch variation detected",
                 "Possible signs of fatigue or stress" >>
         ELSE << "Significant voice abnormalities detected",
                 "Severe hoarseness or strain present",
                 "Irregular breathing patterns observed",
                 "Multiple risk indicators identified",
                 "Possible respiratory concerns" >>

CatalogRecommendations(mode, status) ==
    IF mode = "face"
    THEN IF status = "healthy"
         THEN << "Continue maintaining good health habits",
                 "Regular health checkups recommended",
                 "Stay hydrated and get adequate sleep" >>
         ELSE IF status = "needs-consultation"
         THEN << "Schedule a consultation with a healthcare provider",
                 "Monitor for any changes in symptoms",
                 "Ensure adequate rest and stress management",
                 "Consider a comprehensive health screening" >>
         ELSE << "Consult a healthcare professional immediately",
                 "Schedule comprehensive medical examination",
                 "Document any recent symptoms or changes",
                 "Do not delay seeking medical advice" >>
    ELSE IF status = "healthy"
         THEN << "Voice characteristics appear normal",
                 "Continue maintaining good vocal health",
                 "Stay hydrated and avoid excessive strain",
                 "Regular health checkups recommended" >>
         ELSE IF status = "needs-consultation"
         THEN << "Schedule a consultation with a healthcare provider",
                 "Consider ENT specialist evaluation",
                 "Monitor for persistent voice changes",
                 "Rest your voice and stay hydrated",
                 "Avoid shouting or excessive talking" >>
         ELSE << "Consult a healthcare professional immediately",
                 "Schedule ENT and respiratory evaluation",
                 "Document any additional symptoms",
                 "Avoid straining your voice",
                 "Seek medical attention without delay" >>

\* The results on display, each with its mode.
ResultsOnDisplay ==
    {<<"face", res>> : res \in face.analysisResult}
       \cup {<<"voice", res>> : res \in voice.analysisResult}

\* Every result on display carries the two lists of its own status and mode.
ListsOfOwnStatus ==
    \A mr \in ResultsOnDisplay :
        /\ mr[2].details = CatalogDetails(mr[1], mr[2].status)
        /\ mr[2].recommendations = CatalogRecommendations(mr[1], mr[2].status)

\* C27 as stated: every result carries the lists of its own status and mode,
\* and each of its two lists has four or five entries.
C27_ListsFourOrFive ==
    /\ ListsOfOwnStatus
    /\ \A mr \in ResultsOnDisplay :
          /\ Len(mr[2].details) \in 4..5
          /\ Len(mr[2].recommendations) \in 4..5

\* The number of lines a list of the catalog has: four or five, except the
\* recommendations of a healthy face result, which are three.
CatalogLengths(mode, status, list) ==
    IF mode = "face" /\ status = "healthy" /\ list = "recommendations"
    THEN {3} ELSE 4..5

\* C27 amended: every result carries the lists of its own status and mode;
\* for every status and mode each of the two lists has four or five entries,
\* except the recommendation list of the healthy status in face mode, which
\* has three.
C27_ListsOfCatalog ==
    /\ ListsOfOwnStatus
    /\ \A mr \in ResultsOnDisplay :
          /\ Len(mr[2].details) \in CatalogLengths(mr[1], mr[2].status, "details")
          /\ Len(mr[2].recommendations)
                \in CatalogLengths(mr[1], mr[2].status, "recommendations")
    /\ \A mode \in {"face", "voice"}, status \in Statuses :
          /\ Len(CatalogDetails(mode, status)) \in CatalogLengths(mode, status, "details")
          /\ Len(CatalogRecommendations(mode, status))
                \in CatalogLengths(mode, status, "recommendations")

\* C27 witness: a healthy face result is on display with its four detail
\* lines and its three recommendation lines.
C27_Witness ==
    \E res \in face.analysisResult :
        /\ res.status = "healthy"
        /\ Len(res.details) = 4 /\ Len(res.recommendations) = 3
        /\ res.details = CatalogDetails("face", "healthy")

\* ---------------------------------------------------------------- C28
\* C28: while a result is on display in a mode, no device session of that
\* mode is active: in face mode the camera is not active; in voice mode no
\* recording is in progress and no duration timer of the component runs.
C28_NoSessionWithResult ==
    /\ face.analysisResult # {} => ~face.isCameraActive
    /\ voice.analysisResult # {}
          => /\ ~voice.isRecording
             /\ \A i \in MicIds : ~(recs[i].owner /\ recs[i].timer)
             /\ \A i \in MicIds : ~(recs[i].owner /\ recs[i].phase = "recording")

\* ---------------------------------------------------------------- C29
\* The confidence the specification gives for a status and a draw u (in
\* thousandths): base + u * span, rounded to the nearest integer.
ConfidenceOfDraw(status, u) ==
    IF status = "healthy" THEN MathRound(75000 + 20 * u, 1000)
    ELSE IF status = "needs-consultation" THEN MathRound(60000 + 15 * u, 1000)
    ELSE MathRound(55000 + 10 * u, 1000)

\* The classification the two draws of an analysis decide.
ClassOfDraws(r, u) ==
    [status |-> StatusOfDraw(r), confidence |-> ConfidenceOfDraw(StatusOfDraw(r), u)]

\* The status and the confidence of the results in a set of results.
ClassesIn(results) ==
    {[status |-> res.status, confidence |-> res.confidence] : res \in results}

\* C29: the status and the confidence of a result are decided by the two
\* draws alone: an analysis that ends with the draws r, u publishes the
\* classification of r, u, whatever the detection behind it (face: number of
\* regions, probability of the first) or the duration of the recording
\* (voice, a recording of at least 3 seconds).
C29_DrawsDecide ==
    [][/\ \A d \in Draws :
             analyzeHealthResolved(d[1], d[2])
             => ClassesIn(face'.analysisResult) = {ClassOfDraws(d[1], d[2])}
       /\ \A i \in MicIds, d \in Draws :
             (/\ analyzeVoiceResolved(i, d[1], d[2])
              /\ recs[i].closure.recordingTime >= MinRecordingTime)
             => ClassesIn(voice'.analysisResult) = {ClassOfDraws(d[1], d[2])}]_vars

\* C29 witness: a face result from a detection with more than one region,
\* published for the draws 0.71 and 0: healthy, 75.
C29_Witness ==
    /\ face.faceCount = MaxRegions /\ MaxRegions > 1
    /\ lastDraw.face = 71
    /\ ClassesIn(face.analysisResult) = {ClassOfDraws(71, 0)}

====
